---- MODULE Spec2Model ----
(***************************************************************************)
(* Model of scripts/generate-agriculture-docs.py: the documentation        *)
(* generator's validation + extraction core and the run pipeline of        *)
(* main() / AgricultureDocGenerator.generate().                            *)
(*                                                                         *)
(* Text is a sequence of tokens.  A token stands for the literal           *)
(* characters it spells ("#", " ", "\n", a code fence, a word).  Python's  *)
(* substring test and the regular expressions of extract_metadata are      *)
(* computed over these sequences the way in and re.findall compute them  *)
(* over characters.                                                        *)
(***************************************************************************)
EXTENDS Integers, Sequences, FiniteSets

VARIABLES
    pc,                 \* position of the single thread of control
    template_file,      \* what is at template_path: "missing", "unreadable", "ok"
    file_text,          \* the text of the template file (<<>> when there is none)
    args_format,        \* args.format, as parsed by argparse
    validate_only,      \* args.validate_only
    formats,            \* main's local formats
    dirs,               \* directories created by the run
    files,              \* files written by the run: path -> content
    tmp_files,          \* temporary .md files left on disk
    report_data,        \* self.report_data
    template_content,   \* the loaded template text
    validation_errors,  \* the list validate_openapi_compliance returned
    metadata,           \* the record extract_metadata returned
    generated_files,    \* generate's local generated_files
    pandoc_calls,       \* the external converter's invocations and what each did
    printed,            \* the lines printed to stdout, in order
    result,             \* generate's return value ("none" until it returns)
    exit_code           \* main's return value (the process exit code), -1 until set

vars == <<pc, template_file, file_text, args_format, validate_only, formats, dirs,
          files, tmp_files, report_data, template_content, validation_errors,
          metadata, generated_files, pandoc_calls, printed, result, exit_code>>

----------------------------------------------------------------------------
(* Tokens *)

NL == "\n"
SP == " "
HASH == "#"
\* The three back quotes that open or close a fenced code block
FENCE == "[fence]"
PIPE == "|"

\* \s of the regular expressions, over the token alphabet
IsSpace(t) == t \in {SP, NL}

\* \d+ : a token that is a run of digits
IsDigits(t) == t \in {"404", "500"}

\* The verbs, lines 67 and 100
http_methods == <<"GET", "POST", "PUT", "DELETE", "PATCH", "HEAD", "OPTIONS">>

\* [A-Z_]+ : a token made only of upper-case letters and underscores
IsUpper(t) == t \in {"NOT_FOUND", "X"} \cup {http_methods[m] : m \in DOMAIN http_methods}

\* Python's p in s for strings
Contains(s, p) ==
    \E i \in 1..(Len(s) + 1) :
        /\ i + Len(p) - 1 <= Len(s)
        /\ \A j \in 1..Len(p) : s[i + j - 1] = p[j]

EmptyDict == [k \in {} |-> {}]

----------------------------------------------------------------------------
(* validate_openapi_compliance *)

required_sections ==
    << <<"System", SP, "Overview">>,
       <<"Authentication", SP, "Methods">>,
       <<"Endpoints">>,
       <<"Data", SP, "Models">>,
       <<"Error", SP, "Handling">>,
       <<"Rate", SP, "Limiting">> >>

\* f"## {section}"
SectionHeader(section) == <<HASH, HASH, SP>> \o section

\* f"Missing required section: {section}"
MissingMsg(section) == <<"Missing required section: ">> \o section

NoHttpMsg == <<"No HTTP method examples found in endpoints section">>
NoJsonMsg == <<"No JSON response examples found">>

\* The test of line 63
SectionMissing(content, section) == ~Contains(content, SectionHeader(section))

\* The loop with errors.insert(0, ...) for errors.append(...)
RECURSIVE SectionErrorsPrepend(_, _)
SectionErrorsPrepend(content, k) ==
    IF k = 0 THEN <<>>
    ELSE LET prev == SectionErrorsPrepend(content, k - 1)
         IN  IF SectionMissing(content, required_sections[k])
             THEN <<MissingMsg(required_sections[k])>> \o prev
             ELSE prev

\* The loop of lines 62-64 over the first k required sections
RECURSIVE SectionErrors(_, _)
SectionErrors(content, k) ==
    IF k = 0 THEN <<>>
    ELSE LET prev == SectionErrors(content, k - 1)
         IN  IF SectionMissing(content, required_sections[k])
             THEN Append(prev, MissingMsg(required_sections[k]))
             ELSE prev

\* f"[fence]http\n{method} "
method_pattern(method) == <<FENCE, "http", NL, method, SP>>

\* The loop leaving after its first pattern (the break outside the if)
method_found_first(content) == Contains(content, method_pattern(http_methods[1]))

method_found(content) ==
    \E m \in DOMAIN http_methods : Contains(content, method_pattern(http_methods[m]))

validate_openapi_compliance(content) ==
    LET e1 == SectionErrors(content, Len(required_sections))
        e2 == IF ~method_found(content) THEN Append(e1, NoHttpMsg) ELSE e1
        e3 == IF ~Contains(content, <<FENCE, "json">>) THEN Append(e2, NoJsonMsg) ELSE e2
    IN  e3

----------------------------------------------------------------------------
(* extract_metadata: re.findall scans left to right and resumes after each  *)
(* match; a match at a position is the first one the backtracking matcher   *)
(* finds (greedy \s+ longest first, lazy .+? shortest first).               *)

Max(S) == CHOOSE x \in S : \A y \in S : y <= x
Min(S) == CHOOSE x \in S : \A y \in S : x <= y

\* Lengths k >= 1 such that the k tokens after position p are all white space
SpaceRuns(s, p) == {k \in 1..(Len(s) - p) : \A q \in 1..k : IsSpace(s[p + q])}

\* Length (possibly 0) of the maximal run of white space after position p
SpaceRun(s, p) == IF SpaceRuns(s, p) = {} THEN 0 ELSE Max(SpaceRuns(s, p))

\* Positions of the newlines after position p
NewlinesAfter(s, p) == {e \in (p + 1)..Len(s) : s[e] = NL}

\* r'##\s+(.+?)\n' at position i: the \s+ lengths that let the rest match
SectionKs(s, i) ==
    IF i + 1 <= Len(s) /\ s[i] = HASH /\ s[i + 1] = HASH
    THEN {k \in SpaceRuns(s, i + 1) :
            /\ i + 2 + k <= Len(s)
            /\ s[i + 2 + k] # NL
            /\ NewlinesAfter(s, i + 2 + k) # {}}
    ELSE {}

\* The group (.+?) and the last position of the match at i
SectionMatch(s, i) ==
    LET k     == Max(SectionKs(s, i))
        start == i + 2 + k
        end   == Min(NewlinesAfter(s, start))
    IN  [title |-> SubSeq(s, start, end - 1), end |-> end]

RECURSIVE FindSections(_, _)
FindSections(s, pos) ==
    IF pos > Len(s) THEN <<>>
    ELSE IF SectionKs(s, pos) # {}
         THEN <<SectionMatch(s, pos).title>> \o FindSections(s, SectionMatch(s, pos).end + 1)
         ELSE FindSections(s, pos + 1)

\* An alternation that lists only the first two verbs
endpoint_verbs_short == {"GET", "POST"}

\* (GET|POST|PUT|DELETE|PATCH|HEAD|OPTIONS)
endpoint_verbs == {http_methods[m] : m \in DOMAIN http_methods}

\* r'[fence]http\n(GET|POST|PUT|DELETE|PATCH|HEAD|OPTIONS)' at position i
EndpointAt(s, i) ==
    /\ i + 3 <= Len(s)
    /\ s[i] = FENCE /\ s[i + 1] = "http" /\ s[i + 2] = NL
    /\ s[i + 3] \in endpoint_verbs

RECURSIVE CountEndpoints(_, _)
CountEndpoints(s, pos) ==
    IF pos > Len(s) THEN 0
    ELSE IF EndpointAt(s, pos) THEN 1 + CountEndpoints(s, pos + 4)
         ELSE CountEndpoints(s, pos + 1)

\* r'###\s+(.+?\s+Model)\n' at position i: the last positions e of a match.
\* After '###' and k white-space tokens, j >= 1 tokens none of which is a
\* newline, then a maximal white-space run, then 'Model', then '\n'.
ModelEnds(s, i, k) ==
    LET start == i + 3 + k
    IN  {e \in (start + 3)..Len(s) :
            \E j \in 1..(e - start - 2) :
                /\ \A q \in 0..(j - 1) : s[start + q] # NL
                /\ LET m == e - 1 - (start + j)
                   IN  /\ m >= 1
                       /\ \A q \in 0..(m - 1) : IsSpace(s[start + j + q])
                /\ s[e - 1] = "Model"
                /\ s[e] = NL}

ModelKs(s, i) ==
    IF i + 2 <= Len(s) /\ s[i] = HASH /\ s[i + 1] = HASH /\ s[i + 2] = HASH
    THEN {k \in SpaceRuns(s, i + 2) : ModelEnds(s, i, k) # {}}
    ELSE {}

\* The lazy .+? takes the fewest tokens, so the match ends at the first end
ModelEnd(s, i) == Min(ModelEnds(s, i, Max(ModelKs(s, i))))

RECURSIVE CountModels(_, _)
CountModels(s, pos) ==
    IF pos > Len(s) THEN 0
    ELSE IF ModelKs(s, pos) # {} THEN 1 + CountModels(s, ModelEnd(s, pos) + 1)
         ELSE CountModels(s, pos + 1)

\* Length of the maximal run of tokens satisfying [A-Z_]+ / \d+ from position p on
UpperRun(s, p) ==
    LET R == {k \in 1..(Len(s) - p + 1) : \A q \in 0..(k - 1) : IsUpper(s[p + q])}
    IN  IF R = {} THEN 0 ELSE Max(R)

DigitRun(s, p) ==
    LET R == {k \in 1..(Len(s) - p + 1) : \A q \in 0..(k - 1) : IsDigits(s[p + q])}
    IN  IF R = {} THEN 0 ELSE Max(R)

\* r'\|\s*\d+\s*\|\s*([A-Z_]+)\s*\|' at position i: the last position of the
\* match, 0 when there is none.  Every quantified piece is followed by a token
\* outside its class, so each run is taken whole.
ErrorRowEnd(s, i) ==
    IF i > Len(s) \/ s[i] # PIPE THEN 0
    ELSE LET d  == i + 1 + SpaceRun(s, i)
             dn == DigitRun(s, d)
             p2 == d + dn + SpaceRun(s, d + dn - 1)
         IN  IF dn = 0 \/ p2 > Len(s) \/ s[p2] # PIPE THEN 0
             ELSE LET u  == p2 + 1 + SpaceRun(s, p2)
                      un == UpperRun(s, u)
                      p3 == u + un + SpaceRun(s, u + un - 1)
                  IN  IF un = 0 \/ p3 > Len(s) \/ s[p3] # PIPE THEN 0 ELSE p3

RECURSIVE CountErrorCodes(_, _)
CountErrorCodes(s, pos) ==
    IF pos > Len(s) THEN 0
    ELSE IF ErrorRowEnd(s, pos) # 0 THEN 1 + CountErrorCodes(s, ErrorRowEnd(s, pos) + 1)
         ELSE CountErrorCodes(s, pos + 1)

extract_metadata(content) ==
    [sections          |-> FindSections(content, 1),
     endpoints_count   |-> CountEndpoints(content, 1),
     data_models_count |-> CountModels(content, 1),
     error_codes_count |-> CountErrorCodes(content, 1)]

----------------------------------------------------------------------------
(* The remaining pure steps *)

\* A loader that returns an empty text where it should raise
load_template_swallow(state, text) ==
    [raised |-> FALSE, value |-> IF state = "ok" THEN text ELSE <<>>]

\* load_template, lines 38-46: the text read, or the exception raised
load_template(state, text) ==
    CASE state = "ok"      -> [raised |-> FALSE, value |-> text]
      [] state = "missing" -> [raised |-> TRUE,
                               value  |-> <<"Template file not found: ", "<template_path>">>]
      [] OTHER             -> [raised |-> TRUE,
                               value  |-> <<"Error loading template: ", "<oserror>">>]

\* generate_markdown_docs, lines 116-122
generate_markdown_docs(content) ==
    <<"---", NL, "# Generated: ", "<timestamp>", NL, "# Source: ", "<template_path>", NL,
      "# Version: 1.0.0", NL, "---", NL, NL>> \o content

\* main, lines 355-358
ExpandFormats(fmt) == IF "all" \in fmt THEN {"markdown", "html", "pdf"} ELSE fmt

\* What subprocess.run(["pandoc", ...]) can do: exit 0, exit non-zero, or raise
PandocOutcomes == {"ok", "nonzero", "oserror"}

HtmlPath == "agriculture-api.html"
PdfPath == "agriculture-api.pdf"
MdPath == "agriculture-api.md"
YamlPath == "openapi.yaml"
JsonPath == "openapi.json"
ReportPath == "reports/docs-generation-<timestamp>.json"

\* The exception text str(e) of a failed conversion
ConversionError(label, outcome) ==
    IF outcome = "nonzero" THEN <<label \o " conversion failed: ", "<stderr>">>
    ELSE <<"<oserror>">>

\* The conversion without its returncode test
generate_html_docs_unchecked(outcome) ==
    IF outcome = "oserror"
    THEN [path |-> "",
          warnings |-> << <<"HTML generation failed: ">> \o ConversionError("Pandoc", outcome) >>]
    ELSE [path |-> HtmlPath, warnings |-> <<>>]

\* generate_html_docs, lines 124-153: the returned path ("" on failure) and
\* the warnings appended to report_data
generate_html_docs(outcome) ==
    IF outcome = "ok"
    THEN [path |-> HtmlPath, warnings |-> <<>>]
    ELSE [path |-> "",
          warnings |-> << <<"HTML generation failed: ">> \o ConversionError("Pandoc", outcome) >>]

\* generate_pdf_docs, lines 155-184
generate_pdf_docs(outcome) ==
    IF outcome = "ok"
    THEN [path |-> PdfPath, warnings |-> <<>>]
    ELSE [path |-> "",
          warnings |-> << <<"PDF generation failed: ">> \o ConversionError("PDF", outcome) >>]

\* What writing the two OpenAPI files can do (lines 233-237 inside the try)
OpenapiOutcomes == {"ok", "yaml_fails", "json_fails"}

\* generate_openapi_spec, lines 186-243: the returned path ("" for None), the
\* files written and the warnings appended.  The spec object is a literal.
generate_openapi_spec(outcome) ==
    CASE outcome = "ok" ->
            [path |-> YamlPath, written |-> {YamlPath, JsonPath}, warnings |-> <<>>]
      [] outcome = "yaml_fails" ->
            [path |-> "", written |-> {},
             warnings |-> << <<"OpenAPI spec generation failed: ", "<oserror>">> >>]
      [] OTHER ->
            [path |-> "", written |-> {YamlPath},
             warnings |-> << <<"OpenAPI spec generation failed: ", "<oserror>">> >>]

\* files with content written at path
Write(fs, path, content) ==
    [p \in DOMAIN fs \cup {path} |-> IF p = path THEN content ELSE fs[p]]

----------------------------------------------------------------------------
(* The templates the runs are given *)

\* Tail lines appended to a template: at most this many
MaxTail == 1

RECURSIVE Flatten(_)
Flatten(ss) == IF ss = <<>> THEN <<>> ELSE Head(ss) \o Flatten(Tail(ss))

\* A second-level heading line
H2Line(title) == <<HASH, HASH, SP>> \o title \o <<NL>>

\* The heading lines of the required sections in S, in the required order or
\* in the reverse of it
RECURSIVE HeadingLines(_, _, _)
HeadingLines(S, reverse, k) ==
    IF k = 0 THEN <<>>
    ELSE LET line == IF k \in S THEN H2Line(required_sections[k]) ELSE <<>>
             rest == HeadingLines(S, reverse, k - 1)
         IN  IF reverse THEN line \o rest ELSE rest \o line

\* An http code block: none, a request line, a verb alone on its line
HttpBlocks ==
    { <<>>,
      <<FENCE, "http", NL, "PATCH", SP, "/x", NL, FENCE, NL>>,
      <<FENCE, "http", NL, "GET", NL, FENCE, NL>> }

JsonBlocks == { <<>>, <<FENCE, "json", NL, "x", NL, FENCE, NL>> }

\* Lines that may follow: a third-level heading titled like a required
\* section, a heading with two spaces after the marker, a "Model" subsection,
\* an error-code table row, a last heading line with no newline after it
TailLines ==
    << <<HASH, HASH, HASH, SP, "Endpoints", NL>>,
       <<HASH, HASH, SP, SP, "Data", SP, "Models", NL>>,
       <<HASH, HASH, HASH, SP, "X", SP, "Model", NL>>,
       <<PIPE, SP, "404", SP, PIPE, SP, "NOT_FOUND", SP, PIPE, NL>>,
       <<HASH, HASH, SP, "Rate", SP, "Limiting">> >>

\* The lines of TailLines picked by T, in their order
RECURSIVE TailOf(_, _)
TailOf(T, k) ==
    IF k = 0 THEN <<>>
    ELSE TailOf(T, k - 1) \o (IF k \in T THEN TailLines[k] ELSE <<>>)

\* Templates: the heading lines of a set of required sections (one of SS) in
\* the required order or (rev) reversed, an http block, a json block and up
\* to n of the tail lines
Texts(SS, revs, n) ==
    { HeadingLines(S, rev, Len(required_sections)) \o h \o j \o TailOf(T, Len(TailLines)) :
        S \in SS, rev \in revs, h \in HttpBlocks, j \in JsonBlocks,
        T \in {T \in SUBSET (DOMAIN TailLines) : Cardinality(T) <= n} }

AllSectionSets == SUBSET (DOMAIN required_sections)

\* The templates of the text specification
TextTemplates == Texts(AllSectionSets, BOOLEAN, MaxTail)

\* The templates of the pipeline specification: at most one required heading
\* missing, no tail
RunTemplates ==
    Texts({S \in AllSectionSets : Cardinality(S) + 1 >= Len(required_sections)}, {FALSE}, 0)

\* args.format: one or more of the choices of line 347
FormatChoices == {"markdown", "html", "pdf", "all"}
ArgFormats == (SUBSET FormatChoices) \ {{}}

----------------------------------------------------------------------------
(* The run *)

InitWith(texts, fmts, modes) ==
    /\ pc = "main"
    /\ template_file \in {"missing", "unreadable", "ok"}
    /\ file_text \in (IF template_file = "ok" THEN texts ELSE {<<>>})
    /\ args_format \in fmts
    /\ validate_only \in modes
    /\ formats = {}
    /\ dirs = {}
    /\ files = EmptyDict
    /\ tmp_files = {}
    /\ report_data = EmptyDict
    /\ template_content = <<>>
    /\ validation_errors = <<>>
    /\ metadata = EmptyDict
    /\ generated_files = <<>>
    /\ pandoc_calls = <<>>
    /\ printed = <<>>
    /\ result = "none"
    /\ exit_code = -1

Init == InitWith(RunTemplates, ArgFormats, BOOLEAN)

\* The default --format, every template of the text family
InitText == InitWith(TextTemplates, {{"markdown"}}, BOOLEAN)

\* print(f"   - {error}") for each error
ErrorLines(errors) == [i \in DOMAIN errors |-> <<"   - ">> \o errors[i]]

\* main, lines 352-358
ParseArgs ==
    /\ pc = "main"
    /\ formats' = ExpandFormats(args_format)
    /\ pc' = "construct"
    /\ UNCHANGED <<template_file, file_text, args_format, validate_only, dirs, files,
                   tmp_files, report_data, template_content, validation_errors,
                   metadata, generated_files, pandoc_calls, printed, result, exit_code>>

\* Construction followed by a main that does not test args.validate_only
ConstructThenGenerate ==
    /\ pc = "construct"
    /\ report_data' = [generation_date   |-> "<timestamp>",
                       files_generated   |-> <<>>,
                       validation_errors |-> <<>>,
                       warnings          |-> <<>>,
                       metrics           |-> EmptyDict]
    /\ dirs' = dirs \cup {"<output_dir>", "reports"}
    /\ pc' = "load"
    /\ UNCHANGED <<template_file, file_text, args_format, validate_only, formats, files,
                   tmp_files, template_content, validation_errors, metadata,
                   generated_files, pandoc_calls, printed, result, exit_code>>

\* AgricultureDocGenerator.__init__, lines 23-36 (called at line 361)
Construct ==
    /\ pc = "construct"
    /\ report_data' = [generation_date   |-> "<timestamp>",
                       files_generated   |-> <<>>,
                       validation_errors |-> <<>>,
                       warnings          |-> <<>>,
                       metrics           |-> EmptyDict]
    /\ dirs' = dirs \cup {"<output_dir>", "reports"}
    /\ pc' = IF validate_only THEN "validate_only" ELSE "load"
    /\ UNCHANGED <<template_file, file_text, args_format, validate_only, formats, files,
                   tmp_files, template_content, validation_errors, metadata,
                   generated_files, pandoc_calls, printed, result, exit_code>>

\* The validate-only branch without the return 1 of line 373
ValidateOnlyExitZero ==
    /\ pc = "validate_only"
    /\ LET r      == load_template(template_file, file_text)
           errors == validate_openapi_compliance(r.value)
       IN  IF r.raised
           THEN /\ printed' = Append(printed, <<"Error during validation: ">> \o r.value)
                /\ exit_code' = 1
                /\ UNCHANGED <<template_content, validation_errors, metadata>>
           ELSE /\ template_content' = r.value
                /\ validation_errors' = errors
                /\ metadata' = extract_metadata(r.value)
                /\ printed' = (IF errors # <<>>
                               THEN printed \o <<<<"Validation failed:">>>> \o ErrorLines(errors)
                               ELSE printed)
                              \o <<<<"Template validation passed">>,
                                   <<"Template metrics: ", "<metadata>">>>>
                /\ exit_code' = 0
    /\ pc' = "exit"
    /\ UNCHANGED <<template_file, file_text, args_format, validate_only, formats, dirs,
                   files, tmp_files, report_data, generated_files, pandoc_calls, result>>

\* main, lines 363-382: the validate-only branch
ValidateOnly ==
    /\ pc = "validate_only"
    /\ LET r      == load_template(template_file, file_text)
           errors == validate_openapi_compliance(r.value)
       IN  IF r.raised
           THEN /\ printed' = Append(printed, <<"Error during validation: ">> \o r.value)
                /\ exit_code' = 1
                /\ UNCHANGED <<template_content, validation_errors, metadata>>
           ELSE /\ template_content' = r.value
                /\ validation_errors' = errors
                /\ IF errors # <<>>
                   THEN /\ printed' = printed \o <<<<"Validation failed:">>>> \o ErrorLines(errors)
                        /\ exit_code' = 1
                        /\ UNCHANGED metadata
                   ELSE /\ metadata' = extract_metadata(r.value)
                        /\ printed' = printed \o <<<<"Template validation passed">>,
                                                   <<"Template metrics: ", "<metadata>">>>>
                        /\ exit_code' = 0
    /\ pc' = "exit"
    /\ UNCHANGED <<template_file, file_text, args_format, validate_only, formats, dirs,
                   files, tmp_files, report_data, generated_files, pandoc_calls, result>>

\* generate, lines 256-265
GenLoad ==
    /\ pc = "load"
    /\ LET r == load_template(template_file, file_text)
       IN  IF r.raised
           THEN /\ printed' = printed \o <<<<"Loading template...">>,
                                           <<"Error loading template: ">> \o r.value>>
                /\ result' = "False"
                /\ pc' = "return"
                /\ UNCHANGED template_content
           ELSE /\ printed' = Append(printed, <<"Loading template...">>)
                /\ template_content' = r.value
                /\ pc' = "validate"
                /\ UNCHANGED result
    /\ UNCHANGED <<template_file, file_text, args_format, validate_only, formats, dirs,
                   files, tmp_files, report_data, validation_errors, metadata,
                   generated_files, pandoc_calls, exit_code>>

\* Validation that only advises: the errors are recorded and the run goes on
GenValidateAdvisory ==
    /\ pc = "validate"
    /\ validation_errors' = validate_openapi_compliance(template_content)
    /\ IF validation_errors' # <<>>
       THEN /\ printed' = printed \o <<<<"Validating OpenAPI compliance...">>,
                                       <<"Validation errors found:">>>>
                                  \o ErrorLines(validation_errors')
            /\ report_data' = [report_data EXCEPT !.validation_errors = validation_errors']
       ELSE /\ printed' = printed \o <<<<"Validating OpenAPI compliance...">>,
                                       <<"OpenAPI validation passed">>>>
            /\ UNCHANGED report_data
    /\ pc' = "extract"
    /\ UNCHANGED <<template_file, file_text, args_format, validate_only, formats, dirs,
                   files, tmp_files, template_content, metadata, generated_files,
                   pandoc_calls, result, exit_code>>

\* generate, lines 267-278
GenValidate ==
    /\ pc = "validate"
    /\ validation_errors' = validate_openapi_compliance(template_content)
    /\ IF validation_errors' # <<>>
       THEN /\ printed' = printed \o <<<<"Validating OpenAPI compliance...">>,
                                       <<"Validation errors found:">>>>
                                  \o ErrorLines(validation_errors')
            /\ report_data' = [report_data EXCEPT !.validation_errors = validation_errors']
            /\ result' = "False"
            /\ pc' = "return"
       ELSE /\ printed' = printed \o <<<<"Validating OpenAPI compliance...">>,
                                       <<"OpenAPI validation passed">>>>
            /\ pc' = "extract"
            /\ UNCHANGED <<report_data, result>>
    /\ UNCHANGED <<template_file, file_text, args_format, validate_only, formats, dirs,
                   files, tmp_files, template_content, metadata, generated_files,
                   pandoc_calls, exit_code>>

\* generate, lines 280-291
GenExtract ==
    /\ pc = "extract"
    /\ metadata' = extract_metadata(template_content)
    /\ report_data' = [report_data EXCEPT !.metrics = metadata']
    /\ printed' = Append(printed, <<"Documentation metrics:", "<metadata>">>)
    /\ generated_files' = <<>>
    /\ pc' = "markdown"
    /\ UNCHANGED <<template_file, file_text, args_format, validate_only, formats, dirs,
                   files, tmp_files, template_content, validation_errors, pandoc_calls,
                   result, exit_code>>

\* generate, lines 293-302
GenMarkdown ==
    /\ pc = "markdown"
    /\ IF "markdown" \in formats
       THEN /\ files' = Write(files, MdPath, generate_markdown_docs(template_content))
            /\ generated_files' = Append(generated_files, MdPath)
            /\ printed' = printed \o <<<<"Generating Markdown documentation...">>,
                                       <<"Markdown generated: ", MdPath>>>>
       ELSE UNCHANGED <<files, generated_files, printed>>
    /\ pc' = "html"
    /\ UNCHANGED <<template_file, file_text, args_format, validate_only, formats, dirs,
                   tmp_files, report_data, template_content, validation_errors, metadata,
                   pandoc_calls, result, exit_code>>

\* generate, lines 304-309, with generate_html_docs
GenHtml ==
    /\ pc = "html"
    /\ IF "html" \in formats
       THEN \E outcome \in PandocOutcomes :
              LET r == generate_html_docs(outcome)
              IN  /\ pandoc_calls' = Append(pandoc_calls, [to |-> "html5", outcome |-> outcome])
                  /\ files' = IF outcome = "ok" THEN Write(files, HtmlPath, "<html5>") ELSE files
                  /\ tmp_files' = IF outcome = "ok" THEN tmp_files ELSE tmp_files \cup {"html.md"}
                  /\ report_data' = [report_data EXCEPT !.warnings = @ \o r.warnings]
                  /\ IF r.path # ""
                     THEN /\ generated_files' = Append(generated_files, r.path)
                          /\ printed' = printed \o <<<<"Generating HTML documentation...">>,
                                                     <<"HTML generated: ", r.path>>>>
                     ELSE /\ printed' = Append(printed, <<"Generating HTML documentation...">>)
                          /\ UNCHANGED generated_files
       ELSE UNCHANGED <<pandoc_calls, files, tmp_files, report_data, generated_files, printed>>
    /\ pc' = "pdf"
    /\ UNCHANGED <<template_file, file_text, args_format, validate_only, formats, dirs,
                   template_content, validation_errors, metadata, result, exit_code>>

\* generate, lines 311-316, with generate_pdf_docs
GenPdf ==
    /\ pc = "pdf"
    /\ IF "pdf" \in formats
       THEN \E outcome \in PandocOutcomes :
              LET r == generate_pdf_docs(outcome)
              IN  /\ pandoc_calls' = Append(pandoc_calls, [to |-> "pdf", outcome |-> outcome])
                  /\ files' = IF outcome = "ok" THEN Write(files, PdfPath, "<pdf>") ELSE files
                  /\ tmp_files' = IF outcome = "ok" THEN tmp_files ELSE tmp_files \cup {"pdf.md"}
                  /\ report_data' = [report_data EXCEPT !.warnings = @ \o r.warnings]
                  /\ IF r.path # ""
                     THEN /\ generated_files' = Append(generated_files, r.path)
                          /\ printed' = printed \o <<<<"Generating PDF documentation...">>,
                                                     <<"PDF generated: ", r.path>>>>
                     ELSE /\ printed' = Append(printed, <<"Generating PDF documentation...">>)
                          /\ UNCHANGED generated_files
       ELSE UNCHANGED <<pandoc_calls, files, tmp_files, report_data, generated_files, printed>>
    /\ pc' = "openapi"
    /\ UNCHANGED <<template_file, file_text, args_format, validate_only, formats, dirs,
                   template_content, validation_errors, metadata, result, exit_code>>

RECURSIVE WriteAll(_, _, _)
WriteAll(fs, paths, content) ==
    IF paths = {} THEN fs
    ELSE LET p == CHOOSE q \in paths : TRUE
         IN  WriteAll(Write(fs, p, content), paths \ {p}, content)

\* generate, lines 318-323, with generate_openapi_spec
GenOpenapi ==
    /\ pc = "openapi"
    /\ \E outcome \in OpenapiOutcomes :
         LET r == generate_openapi_spec(outcome)
         IN  /\ files' = WriteAll(files, r.written, "<openapi_spec>")
             /\ report_data' = [report_data EXCEPT !.warnings = @ \o r.warnings]
             /\ IF r.path # ""
                THEN /\ generated_files' = Append(generated_files, r.path)
                     /\ printed' = printed \o <<<<"Generating OpenAPI specification...">>,
                                                <<"OpenAPI spec generated: ", r.path>>>>
                ELSE /\ printed' = Append(printed, <<"Generating OpenAPI specification...">>)
                     /\ UNCHANGED generated_files
    /\ pc' = "report"
    /\ UNCHANGED <<template_file, file_text, args_format, validate_only, formats, dirs,
                   tmp_files, template_content, validation_errors, metadata, pandoc_calls,
                   result, exit_code>>

\* generate, lines 325-337, with generate_report (lines 245-252)
GenReport ==
    /\ pc = "report"
    /\ report_data' = [k \in DOMAIN report_data \cup {"success"} |->
                         CASE k = "files_generated" -> generated_files
                           [] k = "success"         -> TRUE
                           [] OTHER                 -> report_data[k]]
    /\ files' = Write(files, ReportPath, report_data')
    /\ printed' = printed \o <<<<"Generation report: ", ReportPath>>,
                               <<"Documentation generation completed successfully!">>>>
    /\ result' = "True"
    /\ pc' = "return"
    /\ UNCHANGED <<template_file, file_text, args_format, validate_only, formats, dirs,
                   tmp_files, template_content, validation_errors, metadata,
                   generated_files, pandoc_calls, exit_code>>

\* main, lines 385-386
MainReturn ==
    /\ pc = "return"
    /\ exit_code' = IF result = "True" THEN 0 ELSE 1
    /\ pc' = "exit"
    /\ UNCHANGED <<template_file, file_text, args_format, validate_only, formats, dirs,
                   files, tmp_files, report_data, template_content, validation_errors,
                   metadata, generated_files, pandoc_calls, printed, result>>

Next ==
    \/ ParseArgs
    \/ Construct
    \/ ValidateOnly
    \/ GenLoad
    \/ GenValidate
    \/ GenExtract
    \/ GenMarkdown
    \/ GenHtml
    \/ GenPdf
    \/ GenOpenapi
    \/ GenReport
    \/ MainReturn

\* Runs of main() over the pipeline templates, every --format, both modes
Spec == Init /\ [][Next]_vars

\* Runs of main() over the whole template family
SpecText == InitText /\ [][Next]_vars

----------------------------------------------------------------------------
(* Properties *)

Range(f) == {f[i] : i \in DOMAIN f}

\* The validator has run on the loaded template
Validated ==
    /\ template_file = "ok"
    /\ \/ validate_only /\ pc = "exit"
       \/ ~validate_only /\ pc \in {"extract", "markdown", "html", "pdf", "openapi",
                                    "report", "return", "exit"}

IsMissingMsg(e) == e[1] = "Missing required section: "

\* The 'Missing required section' messages of a violation list, in its order
MissingPart(errors) == SelectSeq(errors, IsMissingMsg)

\* The messages of the required sections (first k) that satisfy Absent, in
\* the required order
RECURSIVE ExpectedMissing(_, _, _)
ExpectedMissing(text, Absent(_, _), k) ==
    IF k = 0 THEN <<>>
    ELSE ExpectedMissing(text, Absent, k - 1)
         \o (IF Absent(text, required_sections[k])
             THEN << MissingMsg(required_sections[k]) >> ELSE <<>>)

\* The lines of a text: maximal runs without a newline, by first position
LineStarts(text) == {i \in 1..Len(text) : i = 1 \/ text[i - 1] = NL}
LineEnd(text, i) ==
    IF NewlinesAfter(text, i - 1) = {} THEN Len(text) ELSE Min(NewlinesAfter(text, i - 1)) - 1

\* The line starting at i is a second-level heading: "##", one or more
\* spaces, a title
IsH2At(text, i) ==
    /\ i + 3 <= LineEnd(text, i)
    /\ text[i] = HASH /\ text[i + 1] = HASH /\ text[i + 2] = SP
    /\ \E q \in (i + 3)..LineEnd(text, i) : text[q] \notin {SP, HASH}

\* Its title: the line after the marker, leading spaces dropped
H2Title(text, i) ==
    LET first == Min({q \in (i + 3)..LineEnd(text, i) : text[q] # SP})
    IN  SubSeq(text, first, LineEnd(text, i))

NoH2Heading(text, title) ==
    ~\E i \in LineStarts(text) : IsH2At(text, i) /\ H2Title(text, i) = title

\* The literal "## <title>" occurs nowhere in the text
NoLiteralHeader(text, title) ==
    ~\E i \in 1..Len(text) :
        /\ i + Len(title) + 2 <= Len(text)
        /\ SubSeq(text, i, i + Len(title) + 2) = <<HASH, HASH, SP>> \o title

MessagesFirst(errors) == SubSeq(errors, 1, Len(MissingPart(errors))) = MissingPart(errors)

\* C1 as stated: the violation list holds, before any other message and in
\* the required order, exactly one 'Missing required section' message for each
\* required section that has no second-level heading with that title, and
\* none for a section that has one.
C1_PerHeading ==
    Validated =>
        /\ MissingPart(validation_errors)
             = ExpectedMissing(file_text, NoH2Heading, Len(required_sections))
        /\ MessagesFirst(validation_errors)

\* C1 amended: the violation list holds, before any other message and in the
\* required order, exactly one 'Missing required section' message for each
\* required section whose literal "## <name>" occurs nowhere in the text, and
\* none for a section whose literal occurs somewhere (as a heading of any
\* level >= 2 or inside a longer title).
C1_PerLiteral ==
    Validated =>
        /\ MissingPart(validation_errors)
             = ExpectedMissing(file_text, NoLiteralHeader, Len(required_sections))
        /\ MessagesFirst(validation_errors)

\* A template with two messages out of document order followed by another
\* message, where a required title occurs only in a third-level heading
C1_Witness ==
    /\ Validated
    /\ Len(MissingPart(validation_errors)) >= 2
    /\ Len(validation_errors) > Len(MissingPart(validation_errors))
    /\ NoH2Heading(file_text, <<"Endpoints">>)
    /\ ~NoLiteralHeader(file_text, <<"Endpoints">>)
    /\ Contains(file_text, H2Line(required_sections[6]) \o H2Line(required_sections[5]))

\* The titles of the second-level heading lines from line start i on
RECURSIVE H2Titles(_, _)
H2Titles(text, i) ==
    IF i > Len(text) THEN <<>>
    ELSE (IF IsH2At(text, i) THEN << H2Title(text, i) >> ELSE <<>>)
         \o H2Titles(text, LineEnd(text, i) + 2)

\* C2: the sections of the metadata record are exactly the titles of the
\* second-level heading lines of the text, in document order, duplicates kept
\* (third-level headings are not included).
C2_SectionsAreH2Titles ==
    metadata # EmptyDict => metadata.sections = H2Titles(file_text, 1)

\* The text contains every required section header
AllHeaders(text) ==
    \A k \in DOMAIN required_sections : ~NoLiteralHeader(text, required_sections[k])

\* An http code fence whose first line begins with a recognized verb
HasVerbFence(text) ==
    \E i \in 1..Len(text) :
        /\ i + 3 <= Len(text)
        /\ SubSeq(text, i, i + 2) = <<FENCE, "http", NL>>
        /\ text[i + 3] \in Range(http_methods)

\* ... and the verb is followed by a space
HasVerbSpaceFence(text) ==
    \E i \in 1..Len(text) :
        /\ i + 4 <= Len(text)
        /\ SubSeq(text, i, i + 2) = <<FENCE, "http", NL>>
        /\ text[i + 3] \in Range(http_methods)
        /\ text[i + 4] = SP

HasJsonFence(text) ==
    \E i \in 1..Len(text) : i + 1 <= Len(text) /\ text[i] = FENCE /\ text[i + 1] = "json"

\* C9 as stated: a text with all six required headers, an http code fence
\* beginning with a recognized verb and a json code fence has no violations.
C9_VerbFence ==
    (Validated /\ AllHeaders(file_text) /\ HasVerbFence(file_text) /\ HasJsonFence(file_text))
        => validation_errors = <<>>

\* C9 amended: a text with all six required headers, an http code fence
\* beginning with a recognized verb followed by a space, and a json code fence
\* has no violations.
C9_VerbSpaceFence ==
    (Validated /\ AllHeaders(file_text) /\ HasVerbSpaceFence(file_text)
               /\ HasJsonFence(file_text))
        => validation_errors = <<>>

C9_Witness ==
    /\ Validated
    /\ AllHeaders(file_text) /\ HasVerbSpaceFence(file_text) /\ HasJsonFence(file_text)
    /\ validation_errors = <<>>
    /\ pc = "exit"

\* C10: whenever the validator reports no 'No HTTP method examples' message
\* the extractor counts at least one endpoint, and every metrics record held
\* in report_data or written in a report has endpoints_count >= 1.
C10_EndpointsAgree ==
    /\ (Validated /\ NoHttpMsg \notin Range(validation_errors))
          => extract_metadata(file_text).endpoints_count >= 1
    /\ (report_data # EmptyDict /\ report_data.metrics # EmptyDict)
          => report_data.metrics.endpoints_count >= 1
    /\ ReportPath \in DOMAIN files => files[ReportPath].metrics.endpoints_count >= 1

\* A report with a metrics record has been written
C10_Witness ==
    /\ pc = "exit"
    /\ ReportPath \in DOMAIN files
    /\ files[ReportPath].metrics = metadata
    /\ metadata.endpoints_count = 1

\* Generation mode, and the validator returned violations
GenValidationFailed ==
    ~validate_only /\ Validated /\ validation_errors # <<>>

\* C3: in generation mode a non-empty violation list is fatal: generate
\* returns False (exit code 1) and no generation step runs: no Markdown, HTML,
\* PDF or OpenAPI file is written and the converter is never invoked.
C3_ValidationFatal ==
    GenValidationFailed =>
        /\ pc \in {"return", "exit"}
        /\ result = "False"
        /\ pc = "exit" => exit_code = 1
        /\ DOMAIN files = {}
        /\ pandoc_calls = <<>>
        /\ generated_files = <<>>
        /\ metadata = EmptyDict

C3_Witness == GenValidationFailed /\ pc = "exit" /\ exit_code = 1

\* The conversions that failed so far
FailedCalls == {i \in DOMAIN pandoc_calls : pandoc_calls[i].outcome # "ok"}

WarningPrefix(to) == IF to = "html5" THEN "HTML generation failed: " ELSE "PDF generation failed: "
ArtifactPath(to) == IF to = "html5" THEN HtmlPath ELSE PdfPath

Occurrences(seq, P(_)) == Cardinality({i \in DOMAIN seq : P(seq[i])})

\* C4: a failed conversion (non-zero exit or raised error) never aborts the
\* run: exactly one warning naming the failed format is in the report's
\* warnings, the failed artifact is not among the generated files, the later
\* steps (remaining formats, OpenAPI, report) run and generate returns True.
C4_ConversionNonFatal ==
    \A i \in FailedCalls :
        LET to == pandoc_calls[i].to
            Names(w) == w[1] = WarningPrefix(to)
        IN  /\ Occurrences(report_data.warnings, Names) = 1
            /\ ArtifactPath(to) \notin Range(generated_files)
            /\ result # "False"
            /\ pc \in {"return", "exit"} =>
                  /\ result = "True"
                  /\ ("pdf" \in formats) => (\E j \in DOMAIN pandoc_calls : pandoc_calls[j].to = "pdf")
                  /\ <<"Generating OpenAPI specification...">> \in Range(printed)
                  /\ ReportPath \in DOMAIN files
                  /\ Occurrences(files[ReportPath].warnings, Names) = 1
                  /\ ArtifactPath(to) \notin Range(files[ReportPath].files_generated)
            /\ pc = "exit" => exit_code = 0

\* Both conversions failed, one by exit code and one by a raised error, and
\* the run ended
C4_Witness ==
    /\ pc = "exit"
    /\ Len(pandoc_calls) = 2
    /\ pandoc_calls[1].outcome = "nonzero"
    /\ pandoc_calls[2].outcome = "oserror"
    /\ exit_code = 0

\* A failure line was printed
PrintedFailure ==
    \E i \in DOMAIN printed :
        printed[i][1] \in {"Error loading template: ", "Error during validation: ",
                           "Validation errors found:", "Validation failed:"}

\* C5, for the failures report_data has a field for: a generation run that
\* printed validation errors, or in which a conversion failed, has written a
\* report holding that failure by the time it ends.
C5_FailuresReported ==
    (~validate_only /\ pc = "exit") =>
        /\ (PrintedFailure /\ validation_errors # <<>>) =>
              /\ ReportPath \in DOMAIN files
              /\ files[ReportPath].validation_errors = validation_errors
        /\ FailedCalls # {} =>
              /\ ReportPath \in DOMAIN files
              /\ Len(files[ReportPath].warnings) >= Cardinality(FailedCalls)

\* C6: with no file at the template path the loader fails with the
\* template-not-found error and the run aborts at once: no validation, no
\* extraction, no generation step, exit code 1, and no file is created.
C6_MissingTemplate ==
    template_file = "missing" =>
        /\ pc \in {"main", "construct", "validate_only", "load", "return", "exit"}
        /\ DOMAIN files = {} /\ tmp_files = {} /\ pandoc_calls = <<>>
        /\ validation_errors = <<>> /\ metadata = EmptyDict /\ template_content = <<>>
        /\ <<"Validating OpenAPI compliance...">> \notin Range(printed)
        /\ (pc \in {"return", "exit"} /\ ~validate_only) =>
              /\ result = "False"
              /\ <<"Error loading template: ", "Template file not found: ",
                   "<template_path>">> \in Range(printed)
        /\ pc = "exit" => exit_code = 1

C6_Witness ==
    template_file = "missing" /\ ~validate_only /\ pc = "exit" /\ result = "False"

\* C7: a validate-only run writes no Markdown, HTML, PDF or OpenAPI artifact
\* (nor any other file), never invokes the converter, and prints its outcome.
C7_ValidateOnlyWritesNothing ==
    validate_only =>
        /\ DOMAIN files = {} /\ tmp_files = {}
        /\ pandoc_calls = <<>>
        /\ generated_files = <<>>
        /\ pc = "exit" => printed # <<>>

C7_Witness ==
    validate_only /\ pc = "exit" /\ exit_code = 0 /\ metadata # EmptyDict

\* C8: a validate-only run exits 0 if and only if the template loaded and the
\* validator returned the empty list; otherwise it exits 1.
C8_ValidateOnlyExitCode ==
    (validate_only /\ pc = "exit") =>
        /\ exit_code \in {0, 1}
        /\ exit_code = 0 <=>
              (template_file = "ok" /\ template_content = file_text
                                    /\ validation_errors = <<>>)

C8_Witness ==
    validate_only /\ pc = "exit" /\ exit_code = 1 /\ template_file = "ok"
                  /\ validation_errors # <<>>

====
